---------------------------- MODULE Spec2Model ----------------------------
(***************************************************************************)
(* A model of order_generator.py: the Order class, the novelty penalty,   *)
(* the weight fold and weighted draw of new_order, and clear_orders.      *)
(*                                                                         *)
(* Conventions.                                                            *)
(*  - A Python float in [0, 1] is a pair <<num, den>> (the fraction        *)
(*    num/den).  random.random() returns j/RandDen for j in 0..RandDen-1. *)
(*  - A novelty weight or penalty w is the integer w * Scale, truncated    *)
(*    (fixed point instead of an IEEE double).                             *)
(*  - A date is its day ordinal; str(date) and fromisoformat are the      *)
(*    standard library's inverse pair and are not modelled further.       *)
(*  - Python sequences are 0-based; the TLA+ sequences here are 1-based   *)
(*    and every index operator does the shift.                            *)
(***************************************************************************)
EXTENDS Integers, Sequences, FiniteSets, TLC

VARIABLES history, today, run, probe

vars == <<history, today, run, probe>>

-----------------------------------------------------------------------------
(* Bounds of the model *)

\* longest history a generation starts from is MaxHist - 1
MaxHist == 2
\* the clock runs over days 0 .. MaxDay
MaxDay == 5
\* random.random() is drawn from the grid {0/RandDen, ..., (RandDen-1)/RandDen}
RandDen == 2
\* fixed-point resolution of weights and penalties
Scale == 100
\* integer arguments tried on Order(...) range over -MaxIndex-1 .. MaxIndex+1
MaxIndex == 10
\* fractional arguments tried on Order(..., from_uniform=True) are j/FracDen
FracDen == 4

-----------------------------------------------------------------------------
(* Program constants *)

order_storage == "previous_orders.json"

novelty_reset == 5

tea_types ==
  <<"classic", "milk tea", "punch", "milk cap", "yogurt", "slush",
    "milk strike", "espresso">>

ice_categories == <<"no", "less", "regular", "more">>

topping_list ==
  <<"tapioca", "pudding", "nata jelly", "red bean", "coffee popping bubbles",
    "herbal jelly", "grape popping bubbles", "aloe jelly",
    "mango popping bubbles", "lychee crystal bubbles">>

-----------------------------------------------------------------------------
(* Python built-ins used by the source *)

Max(a, b) == IF a >= b THEN a ELSE b

Range(s) == {s[i] : i \in DOMAIN s}

RECURSIVE SumSeq(_)
SumSeq(s) == IF s = <<>> THEN 0 ELSE s[1] + SumSeq(Tail(s))

\* whether list[i] is a legal subscript of a list of length n (negative
\* subscripts count from the end); otherwise Python raises IndexError
PyIndexOk(i, n) == (-n <= i) /\ (i < n)

\* the 1-based position that the Python subscript i denotes
PyPos(i, n) == IF i >= 0 THEN i + 1 ELSE n + i + 1

\* list.index(v): the 0-based position of the first occurrence of v
ListIndex(list, v) ==
  (CHOOSE i \in DOMAIN list :
      /\ list[i] = v
      /\ \A j \in DOMAIN list : list[j] = v => i <= j) - 1

\* int(f * n) for a float f >= 0 given as a fraction
IntOfProduct(f, n) == (f[1] * n) \div f[2]

\* floor of the square root
RECURSIVE ISqrtIter(_, _, _)
ISqrtIter(x, lo, hi) ==
  IF lo >= hi THEN lo
  ELSE LET mid == (lo + hi + 1) \div 2
       IN  IF mid * mid <= x THEN ISqrtIter(x, mid, hi)
           ELSE ISqrtIter(x, lo, mid - 1)

ISqrt(x) == ISqrtIter(x, 0, IF x < 40000 THEN x ELSE 40000)

-----------------------------------------------------------------------------
(* class Order *)

\* What the constructor yields when a subscript raises IndexError.
NoOrder ==
  [err |-> "IndexError", toppings |-> <<>>, tea_type |-> "",
   sugar_percentage |-> 0, ice_category |-> ""]

\* The subscript that __init__ computes from one argument: the argument
\* modulo the list length, or int(argument * length) when from_uniform.
InitIndex(x, n, from_uniform) ==
  IF from_uniform THEN IntOfProduct(x, n) ELSE x % n

\* Order.__init__(toppings, tea_type, sugar_percentage, ice_category,
\* from_uniform).  With from_uniform the arguments are fractions.
Order(toppings, tea_type, sugar_percentage, ice_category, from_uniform) ==
  LET nt == Len(topping_list)
      ne == Len(tea_types)
      ni == Len(ice_categories)
      ti == [i \in DOMAIN toppings |-> InitIndex(toppings[i], nt, from_uniform)]
      te == InitIndex(tea_type, ne, from_uniform)
      ic == InitIndex(ice_category, ni, from_uniform)
  IN  IF /\ \A i \in DOMAIN ti : PyIndexOk(ti[i], nt)
         /\ PyIndexOk(te, ne)
         /\ PyIndexOk(ic, ni)
      THEN [err |-> "none",
            toppings |-> [i \in DOMAIN ti |-> topping_list[PyPos(ti[i], nt)]],
            tea_type |-> tea_types[PyPos(te, ne)],
            sugar_percentage |->
               IF from_uniform THEN IntOfProduct(sugar_percentage, 100)
               ELSE sugar_percentage % 100,
            ice_category |-> ice_categories[PyPos(ic, ni)]]
      ELSE NoOrder

\* Order.to_dict
to_dict(o) ==
  [toppings |-> [i \in DOMAIN o.toppings |-> ListIndex(topping_list, o.toppings[i])],
   tea_type |-> ListIndex(tea_types, o.tea_type),
   sugar_percentage |-> o.sugar_percentage,
   ice_category |-> ListIndex(ice_categories, o.ice_category)]

\* random() on the grid of denominator den: the fractions j/den in [0, 1)
Grid(den) == {<<j, den>> : j \in 0..(den - 1)}

\* The lists of draws that random.choices makes for k = 1, 2 or 3
\* (k = random.choice(range(1, 4))), each draw on the grid of denominator den
DrawLists(den) == UNION {[1..k -> Grid(den)] : k \in 1..3}

\* weights=None of random.choices
None == <<>>

\* itertools.accumulate(weights)
RECURSIVE AccumulateFrom(_, _, _)
AccumulateFrom(w, i, acc) ==
  IF i > Len(w) THEN acc
  ELSE AccumulateFrom(w, i + 1,
                      Append(acc, (IF i = 1 THEN 0 ELSE acc[i - 1]) + w[i]))

Accumulate(w) == AccumulateFrom(w, 1, <<>>)

\* bisect.bisect(a, x, 0, hi) for the sorted list a and x = x_num / x_den:
\* the number of elements of a[0:hi] that are <= x
BisectRight(a, x_num, x_den, hi) ==
  Cardinality({i \in 1..hi : a[i] * x_den <= x_num})

\* random.choices(range(n), weights, k=Len(rs)) for the draws rs of
\* random(): floor(random() * n) without weights, else the bisection of the
\* cumulative weights at random() * total.  <<-1>> stands for the ValueError
\* raised when the weights total 0.
Choices(n, weights, rs) ==
  IF weights = None
  THEN [i \in DOMAIN rs |-> IntOfProduct(rs[i], n)]
  ELSE LET cum_weights == Accumulate(weights)
           total == cum_weights[n]
       IN  IF total <= 0 THEN <<-1>>
           ELSE [i \in DOMAIN rs |->
                   BisectRight(cum_weights, rs[i][1] * total, rs[i][2], n - 1)]

\* Order.generate_first for the draws d: d.tops the draws of random.choices,
\* d.tea, d.sugar, d.ice the three random.random() calls.
generate_first(d) ==
  LET n == Len(topping_list)
      ts == Choices(n, None, d.tops)
  IN  [toppings |-> [i \in DOMAIN ts |-> <<ts[i], n>>],
       tea_type |-> d.tea,
       sugar_percentage |-> d.sugar,
       ice_category |-> d.ice,
       from_uniform |-> TRUE]

-----------------------------------------------------------------------------
(* novelty_penalty and the fold of new_order *)

\* mutant of novelty_penalty: the square root is taken of days alone
penalty_of_sqrt_days(days) ==
  Max(Scale - ISqrt(days * Scale * Scale) \div novelty_reset, 0)

\* floor(sqrt(novelty_reset * days) * Scale) for the days of the clock,
\* computed once
RootTable ==
  [days \in 0..MaxDay |-> ISqrt(novelty_reset * days * Scale * Scale)]

\* (novelty_reset * days)**0.5, in units of 1/Scale
Root(days) ==
  IF days \in DOMAIN RootTable THEN RootTable[days]
  ELSE ISqrt(novelty_reset * days * Scale * Scale)

\* max(1 - sqrt(novelty_reset * days) / novelty_reset, 0), in units of
\* 1/Scale.  Precondition (docstring): days >= 0.
novelty_penalty(days) == Max(Scale - Root(days) \div novelty_reset, 0)

\* novelty_factors as initialised: weight 1 for every value
InitialFactors ==
  [err |-> "none",
   toppings |-> [i \in DOMAIN topping_list |-> Scale],
   tea_type |-> [i \in DOMAIN tea_types |-> Scale],
   ice_category |-> [i \in DOMAIN ice_categories |-> Scale]]

\* mutant of Penalize: the floor at 0 is forgotten
PenalizeUnclamped(v, i, penalty) ==
  [v EXCEPT ![PyPos(i, Len(v))] = @ - penalty]

\* v[i] = max(v[i] - penalty, 0)
Penalize(v, i, penalty) ==
  [v EXCEPT ![PyPos(i, Len(v))] = Max(@ - penalty, 0)]

\* for topping in order['toppings']: ...
RECURSIVE PenalizeToppings(_, _, _)
PenalizeToppings(v, ts, penalty) ==
  IF ts = <<>> THEN v
  ELSE PenalizeToppings(Penalize(v, ts[1], penalty), Tail(ts), penalty)

\* The body of the loop over previous_orders for one order.  A subscript
\* outside a list raises IndexError and ends new_order.
FoldRecord(f, order, day) ==
  LET days_since == day - order.date
      penalty == novelty_penalty(days_since)
  IN  IF f.err # "none" THEN f
      ELSE IF /\ \A i \in DOMAIN order.toppings :
                    PyIndexOk(order.toppings[i], Len(f.toppings))
              /\ PyIndexOk(order.tea_type, Len(f.tea_type))
              /\ PyIndexOk(order.ice_category, Len(f.ice_category))
           THEN [err |-> "none",
                 toppings |-> PenalizeToppings(f.toppings, order.toppings, penalty),
                 tea_type |-> Penalize(f.tea_type, order.tea_type, penalty),
                 ice_category |->
                    Penalize(f.ice_category, order.ice_category, penalty)]
           ELSE [f EXCEPT !.err = "IndexError"]

\* novelty_factors after the loop over previous_orders
RECURSIVE NoveltyFactorsFrom(_, _, _)
NoveltyFactorsFrom(f, orders, day) ==
  IF orders = <<>> THEN f
  ELSE NoveltyFactorsFrom(FoldRecord(f, orders[1], day), Tail(orders), day)

NoveltyFactors(orders, day) == NoveltyFactorsFrom(InitialFactors, orders, day)

-----------------------------------------------------------------------------
(* new_order *)

\* mutants of v_or_none: the weights are never handed on, or always
v_always_none(v) == None

v_never_none(v) == v

\* None if sum(v) == 0 else v
v_or_none(v) == IF SumSeq(v) = 0 THEN None ELSE v

\* list(set(xs)): the distinct elements of xs, in an order the language
\* does not fix
ListsOfSet(xs) ==
  LET S == Range(xs)
  IN  {l \in [1..Cardinality(S) -> S] : Range(l) = S}

NoWeights == [toppings |-> None, tea_type |-> None, ice_category |-> None]

\* this_order_dict with its date
DatedDict(o, day) ==
  LET dict == to_dict(o)
  IN  [toppings |-> dict.toppings, tea_type |-> dict.tea_type,
       sugar_percentage |-> dict.sugar_percentage,
       ice_category |-> dict.ice_category, date |-> day]

\* mutant of AppendOrder: the weighted branch starts the list afresh, as
\* the bootstrap branch does
OverwriteOrders(previous_orders, this_order_dict) == <<this_order_dict>>

\* previous_orders.append(this_order_dict)
AppendOrder(previous_orders, this_order_dict) ==
  Append(previous_orders, this_order_dict)

\* The draws of one run of new_order are one element of each of draws.tops
\* (the list of draws of random.choices for the toppings), draws.tea,
\* draws.sugar and draws.ice.

\* The bootstrap branch of new_order.
FirstOrderOutcomes(prev, day, draws) ==
  {LET a == generate_first([tops |-> ts, tea |-> te, sugar |-> su, ice |-> ic])
       o == Order(a.toppings, a.tea_type, a.sugar_percentage, a.ice_category,
                  a.from_uniform)
   IN  [err |-> o.err, path |-> "bootstrap", factors |-> InitialFactors,
        weights |-> NoWeights, order |-> o,
        updated_orders |->
           IF o.err = "none" THEN <<DatedDict(o, day)>> ELSE prev]
   : ts \in draws.tops, te \in draws.tea, su \in draws.sugar, ic \in draws.ice}

\* The weighted branch of new_order for the novelty factors f: one outcome
\* for each draw and each order in which list(set(...)) may list the
\* toppings.  An exception leaves the stored orders as they were.
WeightedOrderOutcomes(prev, day, f, draws) ==
  LET wt == v_or_none(f.toppings)
      we == v_or_none(f.tea_type)
      wi == v_or_none(f.ice_category)
      w == [toppings |-> wt, tea_type |-> we, ice_category |-> wi]
      sugars == {IntOfProduct(r, 100) : r \in draws.sugar}
      tops == {Choices(Len(f.toppings), wt, rs) : rs \in draws.tops}
      teas == {Choices(Len(f.tea_type), we, <<r>>)[1] : r \in draws.tea}
      ices == {Choices(Len(f.ice_category), wi, <<r>>)[1] : r \in draws.ice}
  IN  IF f.err # "none"
      THEN {[err |-> f.err, path |-> "weighted", factors |-> f,
             weights |-> NoWeights, order |-> NoOrder, updated_orders |-> prev]}
      ELSE IF <<-1>> \in tops \/ -1 \in teas \/ -1 \in ices
      THEN {[err |-> "ValueError", path |-> "weighted", factors |-> f,
             weights |-> w, order |-> NoOrder, updated_orders |-> prev]}
      ELSE {LET o == Order(l, te, su, ic, FALSE)
            IN  [err |-> o.err, path |-> "weighted", factors |-> f,
                 weights |-> w, order |-> o,
                 updated_orders |-> AppendOrder(prev, DatedDict(o, day))]
            : l \in UNION {ListsOfSet(t) : t \in tops},
              te \in teas, su \in sugars, ic \in ices}

\* What one run of new_order can do on the stored orders prev at date day
\* with its random draws taken from draws: the error raised, if any, the
\* path taken, the novelty factors and the weights handed to
\* random.choices, the order made and the orders written back.
NewOrderOutcomes(prev, day, draws) ==
  IF Len(prev) = 0
  THEN FirstOrderOutcomes(prev, day, draws)
  ELSE WeightedOrderOutcomes(prev, day, NoveltyFactors(prev, day), draws)

-----------------------------------------------------------------------------
(* The program as a state machine: the stored orders, the clock, and what *)
(* the last command did.                                                   *)

\* the draws of one run of new_order, each random() on the grid of RandDen
Draws ==
  [tops |-> DrawLists(RandDen), tea |-> Grid(RandDen),
   sugar |-> Grid(RandDen), ice |-> Grid(RandDen)]

NoRun ==
  [op |-> "none", err |-> "none", path |-> "", factors |-> InitialFactors,
   weights |-> NoWeights, order |-> NoOrder, date |-> 0, response |-> <<>>,
   printed |-> <<>>]

NoProbe == [kind |-> "none"]

\* The answers typed at the prompt of clear_orders, as lists of characters.
Responses == {<<>>, <<"y">>, <<"Y">>, <<"n">>, <<"n", "a", "y">>}

\* set(response) & set('yY')
Accepts(response) == (Range(response) \cap {"y", "Y"}) # {}

\* Stored orders that saturate a domain: record i is one that new_order can
\* append on day 0 to the records before it.
SaturatingRecord(i) ==
  [toppings |-> IF i < 3 THEN <<3 * i, 3 * i + 1, 3 * i + 2>>
                ELSE <<(i + 6) % Len(topping_list)>>,
   tea_type |-> i % Len(tea_types),
   sugar_percentage |-> 0,
   ice_category |-> i % Len(ice_categories),
   date |-> 0]

SaturatingHistories ==
  {[i \in 1..n |-> SaturatingRecord(i - 1)] :
     n \in Len(ice_categories)..Len(tea_types)}

Init ==
  /\ history = <<>>
  /\ today = 0
  /\ run = NoRun
  /\ probe = NoProbe

\* the histories from which the model lets new_order run
CanGenerate == Len(history) < MaxHist \/ history \in SaturatingHistories

\* python order_generator.py; the line that __str__ formats is not modelled
\* further
new_order ==
  /\ CanGenerate
  /\ \E out \in NewOrderOutcomes(history, today, Draws) :
        /\ history' = out.updated_orders
        /\ run' = [op |-> "new_order", err |-> out.err, path |-> out.path,
                   factors |-> out.factors, weights |-> out.weights,
                   order |-> out.order, date |-> today, response |-> <<>>,
                   printed |-> IF out.err = "none"
                               THEN <<"Today's order:", "str(this_order)">>
                               ELSE <<>>]
  /\ UNCHANGED <<today, probe>>

\* python order_generator.py clear
clear_orders ==
  /\ \E response \in Responses :
        /\ history' = IF Accepts(response) THEN <<>> ELSE history
        /\ run' = [NoRun EXCEPT !.op = "clear_orders", !.date = today,
                     !.response = response,
                     !.printed = IF Accepts(response) THEN <<>>
                                 ELSE <<"Aborted.">>]
  /\ UNCHANGED <<today, probe>>

\* datetime.date.today() moves on between two commands
NextDay ==
  /\ today < MaxDay
  /\ today' = today + 1
  /\ run' = NoRun
  /\ UNCHANGED <<history, probe>>

Next == new_order \/ clear_orders \/ NextDay

Spec == Init /\ [][Next]_vars

\* The program started on stored orders that saturate a domain.
SatInit ==
  /\ history \in SaturatingHistories
  /\ today = 0
  /\ run = NoRun
  /\ probe = NoProbe

SatSpec == SatInit /\ [][Next]_vars

-----------------------------------------------------------------------------
(* The Order class and the fold on arguments of the caller's choice *)

\* integer arguments, on both sides of every list's length
IntArgs == (0 - MaxIndex - 1)..(MaxIndex + 1)

\* fractional arguments 0.0 <= x <= 1.0 (the constructor's comment)
FracArgs == {<<j, FracDen>> : j \in 0..FracDen}

\* Order(...) and Order(**o.to_dict()) for one choice of arguments
Rebuilt(o) ==
  IF o.err # "none" THEN NoOrder
  ELSE LET dict == to_dict(o)
       IN  Order(dict.toppings, dict.tea_type, dict.sugar_percentage,
                 dict.ice_category, FALSE)

ProbeResult(toppings, tea_type, sugar_percentage, ice_category, from_uniform) ==
  LET o == Order(toppings, tea_type, sugar_percentage, ice_category,
                 from_uniform)
  IN  [kind |-> "Order", from_uniform |-> from_uniform,
       toppings |-> toppings, tea_type |-> tea_type,
       sugar_percentage |-> sugar_percentage, ice_category |-> ice_category,
       o |-> o, again |-> Rebuilt(o)]

\* Order(toppings, tea_type, sugar_percentage, ice_category)
ConstructFromIndices ==
  /\ probe = NoProbe
  /\ \E a \in IntArgs, te \in IntArgs, ic \in IntArgs,
        su \in {-1, 0, 99, 100}, two \in BOOLEAN :
        probe' = ProbeResult(IF two THEN <<a, a + 1>> ELSE <<a>>, te, su, ic,
                             FALSE)
  /\ UNCHANGED <<history, today, run>>

\* Order(toppings, tea_type, sugar_percentage, ice_category, from_uniform=True)
ConstructFromUniform ==
  /\ probe = NoProbe
  /\ \E ts \in {<<a>> : a \in FracArgs} \cup {<<a, b>> : a, b \in FracArgs},
        te \in FracArgs, su \in FracArgs, ic \in FracArgs :
        probe' = ProbeResult(ts, te, su, ic, TRUE)
  /\ UNCHANGED <<history, today, run>>

\* The loop of new_order over one stored order whose indices are any integers
FoldStoredOrder ==
  /\ probe = NoProbe
  /\ \E a \in IntArgs, te \in IntArgs, ic \in IntArgs :
        LET order == [toppings |-> <<a>>, tea_type |-> te,
                      sugar_percentage |-> 0, ice_category |-> ic,
                      date |-> today]
        IN  probe' = [kind |-> "fold", order |-> order,
                      f |-> NoveltyFactors(<<order>>, today)]
  /\ UNCHANGED <<history, today, run>>

ProbeNext == ConstructFromUniform \/ FoldStoredOrder \/ ConstructFromIndices

ProbeSpec == Init /\ [][ProbeNext]_vars

-----------------------------------------------------------------------------
(* Properties *)

NoRepeat(l) == \A i, j \in DOMAIN l : l[i] = l[j] => i = j

InUnit(v) == \A i \in DOMAIN v : 0 <= v[i] /\ v[i] <= Scale

AllZero(v) == \A i \in DOMAIN v : v[i] = 0

\* a run of new_order that took the weighted path and wrote an order
WeightedRun == run.op = "new_order" /\ run.path = "weighted" /\ run.err = "none"

\* the stored orders that such a run read
ReadOrders == SubSeq(history, 1, Len(history) - 1)

\* C1: for the stored orders of every reachable state (their dates are never
\* after today and their indices are inside the domains), every entry of the
\* three weight vectors that new_order computes lies in [0, 1], after each
\* stored order is folded in and at the end; so do the vectors the last run
\* of new_order computed.
C1_WeightsInUnitInterval ==
  /\ \A n \in 0..Len(history) :
        LET f == NoveltyFactors(SubSeq(history, 1, n), today)
        IN  /\ f.err = "none"
            /\ InUnit(f.toppings) /\ InUnit(f.tea_type) /\ InUnit(f.ice_category)
  /\ run.op = "new_order" =>
        /\ InUnit(run.factors.toppings)
        /\ InUnit(run.factors.tea_type)
        /\ InUnit(run.factors.ice_category)

\* Two stored orders with the same tea type, the older one to four days
\* old and the newer of today: the penalties add up to more than 1.
C1_Witness ==
  /\ Len(history) = 2
  /\ run.op = "new_order"
  /\ history[1].tea_type = history[2].tea_type
  /\ history[2].date = today
  /\ today - history[1].date \in 1..(novelty_reset - 1)

\* C2: in a weighted generation a value of weight 0 is chosen for no domain
\* unless every weight of the domain is 0; so the tea type and the toppings
\* of a stored order dated the day of the run are not chosen again, unless
\* all weights of the domain are 0.
C2_ZeroWeightNeverChosen ==
  WeightedRun =>
    LET f == run.factors
        chosen == to_dict(run.order)
    IN  /\ ~AllZero(f.toppings) =>
              \A i \in DOMAIN chosen.toppings : f.toppings[chosen.toppings[i] + 1] > 0
        /\ ~AllZero(f.tea_type) => f.tea_type[chosen.tea_type + 1] > 0
        /\ ~AllZero(f.ice_category) => f.ice_category[chosen.ice_category + 1] > 0
        /\ \A n \in DOMAIN ReadOrders :
              ReadOrders[n].date = run.date =>
                /\ ~AllZero(f.tea_type) =>
                      chosen.tea_type # ReadOrders[n].tea_type
                /\ ~AllZero(f.toppings) =>
                      Range(chosen.toppings) \cap Range(ReadOrders[n].toppings) = {}

\* A weighted run that read an order of the same day.
C2_Witness ==
  /\ WeightedRun
  /\ \E n \in DOMAIN ReadOrders : ReadOrders[n].date = run.date
  /\ ~AllZero(run.factors.tea_type)
  /\ ~AllZero(run.factors.toppings)

\* C3: every order that new_order makes, on the bootstrap path and on the
\* weighted path, has 1 to 3 toppings with none repeated, a tea type and an
\* ice category of their domains and a sugar percentage in 0..99; no stored
\* order repeats a topping index.
C3_SelectionWellFormed ==
  /\ (run.op = "new_order" /\ run.err = "none") =>
        /\ Len(run.order.toppings) \in 1..3
        /\ NoRepeat(run.order.toppings)
        /\ Range(run.order.toppings) \subseteq Range(topping_list)
        /\ run.order.tea_type \in Range(tea_types)
        /\ run.order.ice_category \in Range(ice_categories)
        /\ run.order.sugar_percentage \in 0..99
  /\ \A n \in DOMAIN history : NoRepeat(history[n].toppings)

\* the sum of novelty_penalty over the orders that Refers picks, each once
PenaltySum(orders, day, Refers(_)) ==
  SumSeq([n \in DOMAIN orders |->
            IF Refers(orders[n]) THEN novelty_penalty(day - orders[n].date)
            ELSE 0])

Reverse(l) == [i \in DOMAIN l |-> l[Len(l) + 1 - i]]

\* C4: the weight of a value v is max(0, 1 - S), S the sum of
\* novelty_penalty(daysSince) over the stored orders that refer to v, each
\* order counted once; and the weights do not depend on the order of the
\* stored orders.
C4_WeightIsClampedSum ==
  LET f == NoveltyFactors(history, today)
  IN  /\ \A v \in 0..(Len(topping_list) - 1) :
            f.toppings[v + 1] =
              Max(0, Scale - PenaltySum(history, today,
                                        LAMBDA r : v \in Range(r.toppings)))
      /\ \A v \in 0..(Len(tea_types) - 1) :
            f.tea_type[v + 1] =
              Max(0, Scale - PenaltySum(history, today,
                                        LAMBDA r : r.tea_type = v))
      /\ \A v \in 0..(Len(ice_categories) - 1) :
            f.ice_category[v + 1] =
              Max(0, Scale - PenaltySum(history, today,
                                        LAMBDA r : r.ice_category = v))
      /\ NoveltyFactors(Reverse(history), today) = f

IsRecent(order) == today - order.date < novelty_reset

PenaltyZeroFromReset ==
  \A days \in novelty_reset..(novelty_reset + MaxDay) : novelty_penalty(days) = 0

\* C5: novelty_penalty is 0 from novelty_reset days on, and the weights
\* computed from the stored orders equal the weights computed from the stored
\* orders less than novelty_reset days old.
C5_OldOrdersForgotten ==
  /\ PenaltyZeroFromReset
  /\ NoveltyFactors(history, today) =
        NoveltyFactors(SelectSeq(history, IsRecent), today)

\* An order novelty_reset days old or older before one that still counts.
C5_Witness ==
  /\ Len(history) = 2
  /\ ~IsRecent(history[1])
  /\ today - history[2].date \in 1..(novelty_reset - 1)

\* C6: no index fails: an integer index given to Order is mapped to the value
\* at the index modulo the domain size, a fractional index given to
\* Order(from_uniform=True) is mapped to a value of its domain, an integer
\* index of a stored order is folded at the index modulo the domain size,
\* and none of them raises an error.
C6_IndexMappingNeverFails ==
  /\ probe.kind = "Order" =>
        /\ probe.o.err = "none"
        /\ Range(probe.o.toppings) \subseteq Range(topping_list)
        /\ probe.o.tea_type \in Range(tea_types)
        /\ probe.o.ice_category \in Range(ice_categories)
        /\ ~probe.from_uniform =>
              /\ \A i \in DOMAIN probe.toppings :
                    probe.o.toppings[i] =
                      topping_list[(probe.toppings[i] % Len(topping_list)) + 1]
              /\ probe.o.tea_type =
                    tea_types[(probe.tea_type % Len(tea_types)) + 1]
              /\ probe.o.ice_category =
                    ice_categories[(probe.ice_category % Len(ice_categories)) + 1]
  /\ probe.kind = "fold" =>
        /\ probe.f.err = "none"
        /\ probe.f.tea_type[(probe.order.tea_type % Len(tea_types)) + 1] = 0

\* C7: for every order o that either construction path makes,
\* Order(**o.to_dict()) has the same toppings, tea type, sugar percentage
\* and ice category, and the same to_dict.
C7_RoundTrip ==
  (probe.kind = "Order" /\ probe.o.err = "none") =>
    /\ probe.again = probe.o
    /\ to_dict(probe.again) = to_dict(probe.o)

OneDraw == {<<0, 1>>}

FineToppings ==
  [tops |-> DrawLists(Len(topping_list)), tea |-> OneDraw, sugar |-> OneDraw,
   ice |-> OneDraw]

FineTea ==
  [tops |-> {<<<<0, 1>>>>}, tea |-> Grid(Len(tea_types)), sugar |-> OneDraw,
   ice |-> OneDraw]

FineIce ==
  [tops |-> {<<<<0, 1>>>>}, tea |-> OneDraw, sugar |-> OneDraw,
   ice |-> Grid(Len(ice_categories))]

\* C9: in a weighted generation, a domain whose weights are all 0 is drawn
\* without weights and the run ends without error; a run on stored orders
\* that make all weights of a domain 0 can choose every value of the domain
\* (for the toppings: every set of 1 to 3 toppings) and cannot fail.
C9_ZeroSumFallback ==
  /\ (run.op = "new_order" /\ run.path = "weighted") =>
        /\ run.err = "none"
        /\ AllZero(run.factors.toppings) => run.weights.toppings = None
        /\ AllZero(run.factors.tea_type) => run.weights.tea_type = None
        /\ AllZero(run.factors.ice_category) => run.weights.ice_category = None
  /\ history # <<>> =>
        LET f == NoveltyFactors(history, today)
        IN  /\ AllZero(f.toppings) =>
                 LET outs == NewOrderOutcomes(history, today, FineToppings)
                 IN  /\ \A out \in outs : out.err = "none"
                     /\ {Range(to_dict(out.order).toppings) : out \in outs} =
                          {S \in SUBSET (0..(Len(topping_list) - 1)) :
                              Cardinality(S) \in 1..3}
            /\ AllZero(f.tea_type) =>
                 LET outs == NewOrderOutcomes(history, today, FineTea)
                 IN  /\ \A out \in outs : out.err = "none"
                     /\ {to_dict(out.order).tea_type : out \in outs} =
                          0..(Len(tea_types) - 1)
            /\ AllZero(f.ice_category) =>
                 LET outs == NewOrderOutcomes(history, today, FineIce)
                 IN  /\ \A out \in outs : out.err = "none"
                     /\ {to_dict(out.order).ice_category : out \in outs} =
                          0..(Len(ice_categories) - 1)

\* A weighted run that found every weight of every domain 0.
C9_Witness ==
  /\ WeightedRun
  /\ AllZero(run.factors.toppings)
  /\ AllZero(run.factors.tea_type)
  /\ AllZero(run.factors.ice_category)

\* the answers that say yes
YesAnswers == {<<"y">>, <<"Y">>, <<"y", "e", "s">>}

\* C10: a run of clear_orders whose answer is not a yes leaves the stored
\* orders as they were and prints 'Aborted.'.
C10_ClearOnlyOnYes ==
  [][(run'.op = "clear_orders" /\ run'.response \notin YesAnswers) =>
        /\ history' = history
        /\ run'.printed = <<"Aborted.">>]_vars

=============================================================================
